---- MODULE Spec2Model ----
(***************************************************************************)
(* Model of mayorista_monitor.py: the price-file filters, the concurrent   *)
(* catalog lookups, the classifier and the main flow that joins them.      *)
(*                                                                         *)
(* Text is a sequence of one-character strings, so that trimming, case     *)
(* folding, substring search and number parsing are computed and not       *)
(* assumed.  A table cell is NaN (missing), Str(text), IntCell(n) or       *)
(* FloatCell(n) (the float n.0).  An optional number is None or Some(n).   *)
(* Python's True / False / None in a result field are the strings          *)
(* "True", "False", "None".                                                *)
(***************************************************************************)
EXTENDS Integers, Sequences, FiniteSets, Bags, TLC

VARIABLES
    pc,              \* position of main's controlling flow
    args,            \* parsed command line: skip_api, workers
    df,              \* the rows the source holds / that were loaded
    xlsx_stats,      \* result of apply_xlsx_filters
    tasks,           \* check_products_batch: (pcf_id_int, row) per submitted lookup
    futures,         \* per task: state of its future and the worker's outcome
    results,         \* check_products_batch: the results list
    classification,  \* the six outcome buckets
    in_items,        \* classify_products' first argument (api_results)
    in_no_id,        \* classify_products' second argument (df_no_pcf_id)
    issued,          \* history: index labels of the rows a catalog GET was sent for
    gets,            \* history: bag of (row index label, identifier) per catalog GET sent
    load,            \* how reading the source ended
    lk,              \* the HTTP attempts of each lookup followed on its own
    called,          \* history: the pipeline functions main has called
    outputs          \* files written and totals reported: html, json, console

vars == <<pc, args, df, xlsx_stats, tasks, futures, results, classification,
          in_items, in_no_id, issued, gets, load, lk, called, outputs>>

-----------------------------------------------------------------------------
(* Bounds of the model *)

\* rows in a sheet handed to apply_xlsx_filters on its own
MaxFilterRows == 2
\* rows of the sheet in a run of main
MaxRows == 3
\* largest --workers value tried
MaxWorkers == 2
\* lookup results handed to classify_products on its own
MaxItems == 2

-----------------------------------------------------------------------------
(* Values *)

None == <<>>
Some(n) == <<n>>

NaN == [t |-> "nan"]
Str(s) == [t |-> "str", s |-> s]
IntCell(n) == [t |-> "int", n |-> n]
FloatCell(n) == [t |-> "float", n |-> n]

\* JSON values of a catalog response: null, text (Str), integer (IntCell),
\* an object with or without the key "aproximado", or a key that is absent
JNull == [t |-> "null"]
JAbsent == [t |-> "absent"]
JStock(has, v) == [t |-> "dict", has |-> has, aproximado |-> v]

\* pd.isna / pd.notna on one cell
IsNa(cell) == cell = NaN

-----------------------------------------------------------------------------
(* Text primitives of Python used by the source *)

Digits == <<"0", "1", "2", "3", "4", "5", "6", "7", "8", "9">>
UpperChars == <<"A", "B", "C", "D", "E", "F", "G", "H", "I", "J", "K", "L", "M",
                "N", "O", "P", "Q", "R", "S", "T", "U", "V", "W", "X", "Y", "Z">>
LowerChars == <<"a", "b", "c", "d", "e", "f", "g", "h", "i", "j", "k", "l", "m",
                "n", "o", "p", "q", "r", "s", "t", "u", "v", "w", "x", "y", "z">>
Whitespace == {" "}

IsDigit(c) == \E i \in 1..Len(Digits) : Digits[i] = c
DigitVal(c) == (CHOOSE i \in 1..Len(Digits) : Digits[i] = c) - 1

LowerChar(c) ==
    IF \E i \in 1..Len(UpperChars) : UpperChars[i] = c
    THEN LowerChars[CHOOSE i \in 1..Len(UpperChars) : UpperChars[i] = c]
    ELSE c

\* str.lower()
Lower(s) == [i \in 1..Len(s) |-> LowerChar(s[i])]

RECURSIVE LStrip(_)
LStrip(s) ==
    IF s # <<>> /\ Head(s) \in Whitespace THEN LStrip(Tail(s)) ELSE s

RECURSIVE RStrip(_)
RStrip(s) ==
    IF s # <<>> /\ s[Len(s)] \in Whitespace
    THEN RStrip(SubSeq(s, 1, Len(s) - 1))
    ELSE s

\* str.strip()
Strip(s) == RStrip(LStrip(s))

\* str.startswith(p)
StartsWith(s, p) == Len(s) >= Len(p) /\ SubSeq(s, 1, Len(p)) = p

\* needle in haystack
Contains(s, p) ==
    \E i \in 1..(Len(s) - Len(p) + 1) : SubSeq(s, i, i + Len(p) - 1) = p

\* first position of character c in s, 0 when absent
IndexOf(s, c) ==
    IF \E i \in 1..Len(s) : s[i] = c
    THEN CHOOSE i \in 1..Len(s) : s[i] = c /\ \A j \in 1..(i - 1) : s[j] # c
    ELSE 0

RECURSIVE DigitsToInt(_)
DigitsToInt(s) ==
    IF s = <<>> THEN 0
    ELSE DigitsToInt(SubSeq(s, 1, Len(s) - 1)) * 10 + DigitVal(s[Len(s)])

RECURSIVE NatToStr(_)
NatToStr(n) ==
    IF n < 10 THEN <<Digits[n + 1]>>
    ELSE NatToStr(n \div 10) \o <<Digits[(n % 10) + 1]>>

\* str(n) of an int
IntToStr(n) == IF n < 0 THEN <<"-">> \o NatToStr(0 - n) ELSE NatToStr(n)

RECURSIVE Pow10(_)
Pow10(k) == IF k = 0 THEN 1 ELSE 10 * Pow10(k - 1)

\* digit (["_"] digit)* : the digit groups of Python's int() and float()
IsDigitPart(s) ==
    /\ s # <<>>
    /\ IsDigit(s[1])
    /\ IsDigit(s[Len(s)])
    /\ \A i \in 1..Len(s) : IsDigit(s[i]) \/ s[i] = "_"
    /\ \A i \in 1..(Len(s) - 1) : ~(s[i] = "_" /\ s[i + 1] = "_")

DropUnderscores(s) == SelectSeq(s, LAMBDA c : c # "_")

HasSign(s) == s # <<>> /\ Head(s) \in {"+", "-"}
Unsigned(s) == IF HasSign(s) THEN Tail(s) ELSE s
SignOf(s) == IF s # <<>> /\ Head(s) = "-" THEN -1 ELSE 1

\* int(text): [exc, v]; exc is "" or "ValueError"
PyIntOfStr(raw) ==
    LET s == Strip(raw)
        body == Unsigned(s)
    IN  IF IsDigitPart(body)
        THEN [exc |-> "", v |-> SignOf(s) * DigitsToInt(DropUnderscores(body))]
        ELSE [exc |-> "ValueError", v |-> 0]

\* largest decimal exponent of a finite double
FloatMaxExp10 == 308

\* float(text): [exc, kind, trunc]; kind is "finite", "inf" or "nan" and trunc
\* the value truncated toward zero (exact for the magnitudes of the model:
\* below 2^31, where a double holds the parsed integer part exactly)
PyFloatOfStr(raw) ==
    LET s == Lower(Strip(raw))
        body == Unsigned(s)
        sign == SignOf(s)
        epos == IndexOf(body, "e")
        mant == IF epos = 0 THEN body ELSE SubSeq(body, 1, epos - 1)
        expo == IF epos = 0 THEN <<>> ELSE SubSeq(body, epos + 1, Len(body))
        dpos == IndexOf(mant, ".")
        ip == IF dpos = 0 THEN mant ELSE SubSeq(mant, 1, dpos - 1)
        fp == IF dpos = 0 THEN <<>> ELSE SubSeq(mant, dpos + 1, Len(mant))
        mantOk == /\ (ip # <<>> \/ fp # <<>>)
                  /\ (ip # <<>> => IsDigitPart(ip))
                  /\ (fp # <<>> => IsDigitPart(fp))
        expoOk == epos = 0 \/ IsDigitPart(Unsigned(expo))
        e == IF epos = 0 THEN 0
             ELSE SignOf(expo) * DigitsToInt(DropUnderscores(Unsigned(expo)))
        fdig == DropUnderscores(fp)
        dig == DropUnderscores(ip) \o fdig
        mval == DigitsToInt(dig)
        shift == e - Len(fdig)
        magnitude == Len(NatToStr(mval)) + shift
        bad == [exc |-> "ValueError", kind |-> "", trunc |-> 0]
    IN  IF body \in {<<"i", "n", "f">>, <<"i", "n", "f", "i", "n", "i", "t", "y">>}
        THEN [exc |-> "", kind |-> "inf", trunc |-> 0]
        ELSE IF body = <<"n", "a", "n">>
        THEN [exc |-> "", kind |-> "nan", trunc |-> 0]
        ELSE IF ~(mantOk /\ expoOk) THEN bad
        ELSE IF mval = 0 THEN [exc |-> "", kind |-> "finite", trunc |-> 0]
        ELSE IF magnitude > FloatMaxExp10 + 1
        THEN [exc |-> "", kind |-> "inf", trunc |-> 0]
        ELSE IF shift >= 0
        THEN [exc |-> "", kind |-> "finite", trunc |-> sign * mval * Pow10(shift)]
        ELSE IF 0 - shift >= Len(NatToStr(mval))
        THEN [exc |-> "", kind |-> "finite", trunc |-> 0]
        ELSE [exc |-> "", kind |-> "finite",
              trunc |-> sign * (mval \div Pow10(0 - shift))]

\* str(cell value)
PyStr(cell) ==
    CASE cell.t = "str" -> cell.s
      [] cell.t = "int" -> IntToStr(cell.n)
      [] cell.t = "float" -> IntToStr(cell.n) \o <<".", "0">>
      [] cell.t = "null" -> <<"N", "o", "n", "e">>
      [] OTHER -> <<"n", "a", "n">>

\* float(cell value): text is parsed, a number converts to itself
PyFloat(cell) ==
    CASE cell.t = "str" -> PyFloatOfStr(cell.s)
      [] cell.t \in {"int", "float"} -> [exc |-> "", kind |-> "finite", trunc |-> cell.n]
      [] OTHER -> [exc |-> "", kind |-> "nan", trunc |-> 0]

\* int(f) of a float: inf raises OverflowError, nan raises ValueError
PyIntOfFloat(f) ==
    IF f.exc # "" THEN [exc |-> f.exc, v |-> 0]
    ELSE IF f.kind = "inf" THEN [exc |-> "OverflowError", v |-> 0]
    ELSE IF f.kind = "nan" THEN [exc |-> "ValueError", v |-> 0]
    ELSE [exc |-> "", v |-> f.trunc]

-----------------------------------------------------------------------------
(* apply_xlsx_filters *)

\* an empty Vendor Name cell: the float NaN that row.get returns for it
VendorNaN == "NaN"

\* a row of the sheet: idx is its DataFrame index label
Row(i, q, r, id, v) ==
    [idx |-> i, qty |-> q, reason |-> r, pcf_id |-> id, vendor |-> v]

SentinelIds ==
    { <<"s", "i", "n", " ", "i", "d">>, <<"n", "/", "a">>, <<"n", "a">>,
      <<"-">>, <<"n", "o", "n", "e">> }

ClearanceLower == <<"c", "l", "e", "a", "r", "a", "n", "c", "e">>

\* Series.fillna(0) on the quantity column
FillNa0(q) == IF q = None THEN Some(0) ELSE q

\* the stock filter written with >= instead of >
QtyPositive_AcceptsZero(row) == FillNa0(row.qty)[1] >= 0

\* fillna(0) > 0 and fillna(0) <= 0 for one row
QtyPositive(row) == FillNa0(row.qty)[1] > 0
QtyNotPositive(row) == FillNa0(row.qty)[1] <= 0

\* .str of a column: a column read with every cell empty is float64, and the
\* accessor refuses it; a sheet without rows has object columns
StrAccessorRaises(sheet) ==
    Len(sheet) > 0 /\ \A i \in 1..Len(sheet) : IsNa(sheet[i].reason)

\* .str.contains('CLEARANCE', case=False, na=False) for one row
IsClearance(row) ==
    IF row.reason.t = "str" THEN Contains(Lower(row.reason.s), ClearanceLower)
    ELSE FALSE

\* is_valid_pcf_id: [exc, v]; OverflowError is not among the caught exceptions
is_valid_pcf_id(val) ==
    IF IsNa(val) \/ Strip(PyStr(val)) = <<>> THEN [exc |-> "", v |-> FALSE]
    ELSE LET s == Lower(Strip(PyStr(val)))
             n == PyIntOfFloat(PyFloatOfStr(s))
         IN  IF s \in SentinelIds THEN [exc |-> "", v |-> FALSE]
             ELSE IF n.exc = "" THEN [exc |-> "", v |-> TRUE]
             ELSE IF n.exc \in {"ValueError", "TypeError"} THEN [exc |-> "", v |-> FALSE]
             ELSE [exc |-> n.exc, v |-> FALSE]

RaisedStats(e, sheet) ==
    [exc |-> e, total |-> Len(sheet), sin_stock_ingram |-> 0, has_stock |-> <<>>,
     sin_stock_df |-> <<>>, clearance |-> 0, clearance_products |-> <<>>,
     eligible_xlsx |-> <<>>, has_pcf_id |-> <<>>, no_pcf_id |-> <<>>]

\* apply_xlsx_filters(df): the returned dictionary, or the exception that left it
apply_xlsx_filters(sheet) ==
    LET total == Len(sheet)
        has_stock == SelectSeq(sheet, QtyPositive)
        sin_stock == total - Len(has_stock)
        clearance_products == SelectSeq(has_stock, IsClearance)
        eligible_xlsx == SelectSeq(has_stock, LAMBDA r : ~IsClearance(r))
        idExc == {is_valid_pcf_id(eligible_xlsx[i].pcf_id).exc :
                      i \in 1..Len(eligible_xlsx)} \ {""}
        has_pcf_id == SelectSeq(eligible_xlsx, LAMBDA r : is_valid_pcf_id(r.pcf_id).v)
        no_pcf_id == SelectSeq(eligible_xlsx, LAMBDA r : ~is_valid_pcf_id(r.pcf_id).v)
        sin_stock_df == SelectSeq(sheet, QtyNotPositive)
    IN  IF StrAccessorRaises(sheet) THEN RaisedStats("AttributeError", sheet)
        ELSE IF idExc # {} THEN RaisedStats(CHOOSE e \in idExc : TRUE, sheet)
        ELSE [exc |-> "", total |-> total, sin_stock_ingram |-> sin_stock,
              has_stock |-> has_stock, sin_stock_df |-> sin_stock_df,
              clearance |-> Len(clearance_products),
              clearance_products |-> clearance_products,
              eligible_xlsx |-> eligible_xlsx,
              has_pcf_id |-> has_pcf_id, no_pcf_id |-> no_pcf_id]

NoStats == RaisedStats("unset", <<>>)

-----------------------------------------------------------------------------
(* check_product_api *)

\* characters a description must keep after its tags are removed
MinDescriptionLen == 20

\* re.sub(r'<[^>]+>', '', s): leftmost matches, each "<", one or more
\* characters other than ">", then ">"
RECURSIVE StripTags(_)
StripTags(s) ==
    IF s = <<>> THEN <<>>
    ELSE IF Head(s) # "<" THEN <<Head(s)>> \o StripTags(Tail(s))
    ELSE LET close == IndexOf(Tail(s), ">")
         IN  IF close >= 2
             THEN StripTags(SubSeq(s, close + 2, Len(s)))
             ELSE <<Head(s)>> \o StripTags(Tail(s))

\* is_description_empty(description)
is_description_empty(description) ==
    IF description.t \in {"null", "absent"} THEN TRUE
    ELSE IF description.t = "str" /\ description.s = <<>> THEN TRUE
    ELSE IF Strip(PyStr(description)) = <<>> THEN TRUE
    ELSE Len(Strip(StripTags(Strip(PyStr(description))))) < MinDescriptionLen

\* only a record is looked into; a scalar stock counts as 0
parse_stock_aproximado_RecordOnly(stock_data) ==
    IF stock_data.t # "dict" \/ ~stock_data.has THEN 0
    ELSE LET n == PyIntOfStr(PyStr(stock_data.aproximado))
         IN  IF n.exc = "" THEN n.v ELSE 0

\* parse_stock_aproximado(stock_data)
parse_stock_aproximado(stock_data) ==
    IF stock_data.t = "null" THEN 0
    ELSE LET raw == IF stock_data.t = "dict"
                    THEN (IF stock_data.has THEN PyStr(stock_data.aproximado)
                          ELSE <<"0">>)
                    ELSE PyStr(stock_data)
             aprox == Strip(raw)
             n == IF StartsWith(aprox, <<"+">>) THEN PyIntOfStr(Tail(aprox))
                  ELSE PyIntOfStr(aprox)
         IN  IF n.exc = "" THEN n.v ELSE 0

\* the dictionary of an error outcome (lines 263-273, 275-285, 314-319)
ErrorResult(msg) ==
    [api_status |-> "error", mayorista |-> "None", stock_pcf |-> None,
     stock_raw |-> <<>>, nombre_pcf |-> "", precio_normal |-> Some(0),
     precio_oferta |-> Some(0), ficha_vacia |-> "None", error |-> msg]

\* a 404 falling through to the else branch of line 262
NotFoundResult_AsError == ErrorResult("HTTP")

\* the dictionary returned for status 404 (lines 251-261)
NotFoundResult ==
    [api_status |-> "not_found", mayorista |-> "False", stock_pcf |-> Some(0),
     stock_raw |-> <<"0">>, nombre_pcf |-> "", precio_normal |-> Some(0),
     precio_oferta |-> Some(0), ficha_vacia |-> "True", error |-> ""]

PyBool(b) == IF b THEN "True" ELSE "False"

\* data.get("stock", {}) and data.get("descripcion", "")
StockOrDefault(body) == IF body.stock.t = "absent" THEN JStock(FALSE, JNull) ELSE body.stock
DescOrDefault(body) == IF body.descripcion.t = "absent" THEN Str(<<>>) ELSE body.descripcion

\* resp.ok
RespOk(resp) == resp.status < 400

\* check_product_api(session, pcf_id) on the final response resp of the GET:
\* [exc, result]; exc names an exception that leaves the function
check_product_api(resp) ==
    IF resp.fault THEN [exc |-> "", result |-> ErrorResult("RequestException")]
    ELSE IF RespOk(resp)
    THEN IF resp.body.form = "not_json"
         THEN [exc |-> "", result |-> ErrorResult("JSONDecodeError")]
         ELSE IF resp.body.form # "object"
         THEN [exc |-> "AttributeError", result |-> ErrorResult("")]
         ELSE LET stock_data == StockOrDefault(resp.body)
              IN  [exc |-> "",
                   result |->
                     [api_status |-> "ok",
                      mayorista |-> resp.body.mayorista,
                      stock_pcf |-> Some(parse_stock_aproximado(stock_data)),
                      stock_raw |-> IF stock_data.t = "dict"
                                    THEN (IF stock_data.has
                                          THEN PyStr(stock_data.aproximado)
                                          ELSE <<"0">>)
                                    ELSE PyStr(stock_data),
                      nombre_pcf |-> resp.body.nombre,
                      precio_normal |-> resp.body.precioNormal,
                      precio_oferta |-> resp.body.precioOferta,
                      ficha_vacia |-> PyBool(is_description_empty(DescOrDefault(resp.body))),
                      error |-> ""]]
    ELSE IF resp.status = 404 THEN [exc |-> "", result |-> NotFoundResult]
    ELSE [exc |-> "", result |-> ErrorResult("HTTP")]

\* future.result() in check_products_batch: the worker's dictionary, or the
\* error dictionary built when the worker raised
FutureResult(outcome) ==
    IF outcome.exc = "" THEN outcome.result ELSE ErrorResult(outcome.exc)

\* the entry appended to results: the row's fields, pcf_id, and **api_result
JoinRow(pid, row, api_result) ==
    [pcf_id |-> Some(pid), row |-> row] @@ api_result

-----------------------------------------------------------------------------
(* classify_products *)

\* the loop body with the stock test ahead of the visibility test
BucketOf_StockFirst(item) ==
    IF item.api_status = "error" THEN "api_errors"
    ELSE IF item.api_status = "not_found" THEN "need_creation"
    ELSE IF item.stock_pcf # None /\ item.stock_pcf[1] > 0 THEN "has_pcf_stock"
    ELSE IF item.mayorista = "True" THEN "already_mayorista"
    ELSE IF item.ficha_vacia = "True" THEN "missing_ficha"
    ELSE "publish_ready"

\* the loop body with the error test after the visibility and stock tests
BucketOf_ErrorLast(item) ==
    IF item.api_status = "not_found" THEN "need_creation"
    ELSE IF item.mayorista = "True" THEN "already_mayorista"
    ELSE IF item.stock_pcf # None /\ item.stock_pcf[1] > 0 THEN "has_pcf_stock"
    ELSE IF item.api_status = "error" THEN "api_errors"
    ELSE IF item.ficha_vacia = "True" THEN "missing_ficha"
    ELSE "publish_ready"

\* the branch of the loop body an item takes
BucketOf(item) ==
    IF item.api_status = "error" THEN "api_errors"
    ELSE IF item.api_status = "not_found" THEN "need_creation"
    ELSE IF item.mayorista = "True" THEN "already_mayorista"
    ELSE IF item.stock_pcf # None /\ item.stock_pcf[1] > 0 THEN "has_pcf_stock"
    ELSE IF item.ficha_vacia = "True" THEN "missing_ficha"
    ELSE "publish_ready"

\* the dictionary appended to need_creation for a row without PCF ID
NoIdEntry(row) == [pcf_id |-> None, row |-> row]

\* the loop body without the continue of the error branch: an error item
\* falls through to the last else as well
Appended_NoContinue(api_results, bucket) ==
    SelectSeq(api_results,
              LAMBDA item : \/ BucketOf(item) = bucket
                            \/ bucket = "publish_ready" /\ item.api_status = "error")

\* the items the loop appends to one bucket, in the order of api_results
Appended(api_results, bucket) ==
    SelectSeq(api_results, LAMBDA item : BucketOf(item) = bucket)

classify_products(api_results, df_no_pcf_id) ==
    [publish_ready |-> Appended(api_results, "publish_ready"),
     missing_ficha |-> Appended(api_results, "missing_ficha"),
     need_creation |-> Appended(api_results, "need_creation")
                       \o [i \in 1..Len(df_no_pcf_id) |-> NoIdEntry(df_no_pcf_id[i])],
     already_mayorista |-> Appended(api_results, "already_mayorista"),
     has_pcf_stock |-> Appended(api_results, "has_pcf_stock"),
     api_errors |-> Appended(api_results, "api_errors")]

\* the classification dictionary main starts from (lines 1391-1398)
EmptyClassification ==
    [publish_ready |-> <<>>, missing_ficha |-> <<>>, need_creation |-> <<>>,
     already_mayorista |-> <<>>, has_pcf_stock |-> <<>>, api_errors |-> <<>>]

BucketNames ==
    {"publish_ready", "missing_ficha", "need_creation", "already_mayorista",
     "has_pcf_stock", "api_errors"}

-----------------------------------------------------------------------------
(* Inputs: sample cells, the sheets and the catalog *)

TxtNew == <<"N", "E", "W">>
TxtClearanceSale == <<"C", "l", "e", "a", "r", "a", "n", "c", "e", " ", "S", "a", "l", "e">>
TxtOldClearance == <<"o", "l", "d", " ", "C", "L", "E", "A", "R", "A", "N", "C", "E">>
TxtClear == <<"C", "L", "E", "A", "R">>
TxtSinId == <<"S", "i", "n", " ", "I", "D">>
TxtNA == <<" ", "N", "/", "A", " ">>
TxtAbc == <<"A", "B", "C", "1", "2", "3">>
TxtLongDescription == <<"<", "p", ">", "N", "o", "t", "e", "b", "o", "o", "k", " ", "1", "4", " ", "p", "u", "l", "g", "a", "d", "a", "s", " ", "1", "6", "G", "B", "<", "/", "p", ">">>
TxtShortDescription == <<"<", "b", ">", "T", "a", "r", "j", "e", "t", "a", " ", "d", "e", " ", "v", "i", "d", "e", "o", "<", "/", "b", ">">>

QtySamples == {None, Some(-1), Some(0), Some(5)}

ReasonSamples == {NaN, Str(TxtNew), Str(TxtClearanceSale), Str(TxtOldClearance), Str(TxtClear)}

IdSamples ==
    { NaN, Str(<<>>), Str(<<" ", " ">>), Str(TxtSinId), Str(TxtNA), Str(<<"-">>),
      Str(TxtAbc), Str(<<"1", "2", "3">>), Str(<<"1", "2", "3", ".", "0">>),
      Str(<<" ", "4", "2", " ">>), Str(<<"1", "_", "0">>), Str(<<"2", "e", "1">>),
      Str(<<"1", ".", "5", ".">>), Str(<<"n", "a", "n">>), Str(<<"i", "n", "f">>),
      Str(<<"-", "I", "n", "f", "i", "n", "i", "t", "y">>),
      Str(<<"1", "e", "4", "0", "0">>), IntCell(4), FloatCell(7) }

\* rows a sheet handed to apply_xlsx_filters alone is made of
FilterRowSamples ==
    {Row(0, q, r, Str(<<"1", "2", "3">>), "acme") : q \in QtySamples, r \in ReasonSamples}
    \cup {Row(0, Some(5), r, id, "acme") : r \in {NaN, Str(TxtNew)}, id \in IdSamples}

\* DataFrame index labels: 0, 1, 2, ... in row order
Reindex(rows) == [i \in 1..Len(rows) |-> [rows[i] EXCEPT !.idx = i - 1]]

SeqsUpTo(S, n) == UNION {[1..k -> S] : k \in 0..n}

FilterSheets == {Reindex(s) : s \in SeqsUpTo(FilterRowSamples, MaxFilterRows)}

\* the rows the sheets of a run of main are drawn from, in sheet order
SheetRows ==
    << Row(0, Some(0), Str(TxtNew), Str(<<"1">>), "acme"),
       Row(0, None, NaN, NaN, "acme"),
       Row(0, Some(5), Str(TxtClearanceSale), Str(<<"2">>), "bolt"),
       Row(0, Some(5), Str(TxtNew), Str(TxtSinId), "bolt"),
       Row(0, Some(5), NaN, NaN, "acme"),
       Row(0, Some(5), Str(TxtNew), Str(<<"i", "n", "f">>), "acme"),
       Row(0, Some(5), Str(TxtNew), Str(<<"1">>), "zeta"),
       Row(0, Some(5), Str(TxtNew), Str(<<"2", ".", "0">>), "acme"),
       Row(0, Some(5), NaN, Str(<<" ", "3", " ">>), "bolt"),
       Row(0, Some(5), Str(TxtClear), IntCell(4), "acme"),
       Row(0, Some(5), Str(TxtNew), Str(<<"5">>), "bolt"),
       Row(0, Some(5), Str(TxtNew), Str(<<"6">>), "acme"),
       Row(0, Some(5), Str(TxtNew), Str(<<"7">>), "acme"),
       Row(0, Some(5), Str(TxtNew), Str(<<"8">>), "acme"),
       Row(0, Some(5), Str(TxtNew), FloatCell(1), VendorNaN) >>

Min(S) == CHOOSE m \in S : \A x \in S : m <= x

RECURSIVE PickRows(_)
PickRows(S) ==
    IF S = {} THEN <<>>
    ELSE <<SheetRows[Min(S)]>> \o PickRows(S \ {Min(S)})

\* every sheet of at most MaxRows rows taken, in order, from SheetRows
Sheets ==
    {Reindex(PickRows(S)) :
        S \in {X \in SUBSET (1..Len(SheetRows)) : Cardinality(X) <= MaxRows}}

Body(m, stock, desc) ==
    [form |-> "object", mayorista |-> m, stock |-> stock, descripcion |-> desc,
     nombre |-> "n", precioNormal |-> Some(10), precioOferta |-> Some(9)]

Http(status, body) == [fault |-> FALSE, status |-> status, body |-> body]

NoBody == [form |-> "not_json"]

\* the Catalog API: the final response of the GET for each identifier
Catalog(pid) ==
    CASE pid = 1 -> Http(200, Body("False", JStock(TRUE, Str(<<"0">>)), Str(TxtLongDescription)))
      [] pid = 2 -> Http(200, Body("False", JAbsent, Str(TxtShortDescription)))
      [] pid = 3 -> Http(200, Body("True", JStock(TRUE, Str(<<"+", "1", "5">>)), Str(TxtLongDescription)))
      [] pid = 4 -> Http(200, Body("False", Str(<<"7">>), JNull))
      [] pid = 5 -> Http(404, NoBody)
      [] pid = 6 -> Http(500, NoBody)
      [] pid = 7 -> Http(200, [form |-> "array"])
      [] pid = 8 -> [fault |-> TRUE, status |-> 0, body |-> NoBody]
      [] OTHER -> Http(200, NoBody)

\* the identifiers the sheets carry
CatalogIds == 1..8

\* what check_product_api returns or raises for each identifier
LookupOutcome == [pid \in CatalogIds |-> check_product_api(Catalog(pid))]

\* lookup results handed to classify_products alone: every combination of
\* status, visibility, stock and description flag
ItemSamples ==
    {[api_status |-> st, mayorista |-> m, stock_pcf |-> sp, stock_raw |-> <<>>,
      nombre_pcf |-> "", precio_normal |-> Some(0), precio_oferta |-> Some(0),
      ficha_vacia |-> fv, error |-> ""] :
        st \in {"ok", "not_found", "error"}, m \in {"True", "False", "None"},
        sp \in {None, Some(0), Some(3)}, fv \in {"True", "False"}}

\* rows without PCF ID handed to classify_products alone
MaxNoId == 1

ItemSeqs ==
    {[i \in 1..Len(s) |-> JoinRow(i, Row(i - 1, Some(5), Str(TxtNew), IntCell(i), "acme"), s[i])] :
        s \in SeqsUpTo(ItemSamples, MaxItems)}

NoIdRows(first, n) ==
    [j \in 1..n |-> Row(first + j - 1, Some(5), Str(TxtNew), Str(TxtSinId), "acme")]

-----------------------------------------------------------------------------
(* One lookup: session.get under the Retry policy of create_session, then the
   rest of check_product_api *)

\* lookups followed attempt by attempt
NumLookups == 2

\* Retry(total=5)
RetryTotal == 5

\* status_forcelist
status_forcelist == {429, 500, 502, 503, 504}

\* the statuses on which respect_retry_after_header=True makes the Retry-After
\* header a reason to retry (Retry.RETRY_AFTER_STATUS_CODES of urllib3)
RETRY_AFTER_STATUS_CODES == {413, 429, 503}

\* the ceiling of min(wait, 20)
MaxRetryAfterWait == 20

\* a response of one HTTP attempt; retry_after is the Retry-After header
Resp(status, retry_after, body) ==
    [fault |-> FALSE, status |-> status, retry_after |-> retry_after, body |-> body]

\* a connection error or a timeout of one HTTP attempt
Fault == [fault |-> TRUE, status |-> 0, retry_after |-> None, body |-> NoBody]

\* the answers the server gives to an attempt (redirects are left out)
AttemptResponses ==
    { Resp(200, None, Catalog(1).body),
      Resp(404, None, NoBody),
      Resp(403, None, NoBody),
      Resp(413, Some(<<"7">>), NoBody),
      Resp(429, None, NoBody),
      Resp(429, Some(<<"7">>), NoBody),
      Resp(429, Some(<<"3", "0">>), NoBody),
      Resp(429, Some(<<"x">>), NoBody),
      Resp(500, None, NoBody),
      Fault }

\* raw values of the "stock" key of a 200 body: absent, null, records with and
\* without the approximate field, scalars, '+'-prefixed, signed, empty and
\* unparseable text
StockSamples ==
    { JAbsent,
      JNull,
      JStock(FALSE, JNull),
      JStock(TRUE, JNull),
      JStock(TRUE, Str(<<"0">>)),
      JStock(TRUE, Str(<<"7">>)),
      JStock(TRUE, Str(<<"+", "1", "5">>)),
      JStock(TRUE, Str(<<" ", "+", "2", "0", " ">>)),
      JStock(TRUE, Str(<<"-", "3">>)),
      JStock(TRUE, Str(<<"+", "-", "2">>)),
      JStock(TRUE, Str(<<>>)),
      JStock(TRUE, Str(<<"+">>)),
      JStock(TRUE, Str(<<"a", "b", "c">>)),
      JStock(TRUE, IntCell(4)),
      Str(<<"7">>),
      Str(<<"+", "1", "5">>),
      Str(<<"m", "u", "c", "h", "o">>),
      IntCell(12),
      IntCell(-1) }

\* final responses whose interpretation depends on the body or the status
FinalResponses ==
    { Resp(200, None, Body(m, stock, desc)) :
          m \in {"True", "False"}, stock \in StockSamples,
          desc \in {Str(TxtLongDescription), Str(TxtShortDescription), JNull} }
    \cup { Resp(200, None, [form |-> "array"]), Resp(200, None, NoBody),
           Resp(404, None, NoBody), Resp(403, None, NoBody),
           Resp(500, None, NoBody), Resp(429, None, NoBody) }

\* bool(response.headers.get("Retry-After"))
has_retry_after(resp) == resp.retry_after # None /\ resp.retry_after # Some(<<>>)

\* Retry.parse_retry_after on delay-seconds: digits between optional
\* whitespace; any other text of the model is not a date either
parse_retry_after(text) ==
    IF Strip(text) # <<>> /\ \A i \in 1..Len(Strip(text)) : IsDigit(Strip(text)[i])
    THEN [exc |-> "", seconds |-> DigitsToInt(Strip(text))]
    ELSE [exc |-> "InvalidHeader", seconds |-> 0]

\* a retry on every status of 400 and above
is_retry_AnyErrorStatus(resp, total) == resp.status >= 400

\* Retry.is_retry(method, status_code, has_retry_after) for a GET; total is
\* the number of retries left
is_retry(resp, total) ==
    \/ resp.status \in status_forcelist
    \/ /\ total # 0
       /\ has_retry_after(resp)
       /\ resp.status \in RETRY_AFTER_STATUS_CODES

\* the wait of lines 222-227 without the ceiling
RetryAfterWait_Uncapped(resp) ==
    IF resp.fault \/ resp.status # 429 \/ resp.retry_after = None THEN None
    ELSE LET wait == PyIntOfStr(resp.retry_after[1])
         IN  IF wait.exc # "" \/ wait.v < 0 THEN None ELSE Some(wait.v)

\* lines 222-227: the seconds slept on a final 429 with a Retry-After header;
\* None when nothing is slept (no header, int() raises, or time.sleep rejects
\* a negative length: the bare except swallows both)
RetryAfterWait(resp) ==
    IF resp.fault \/ resp.status # 429 \/ resp.retry_after = None THEN None
    ELSE LET wait == PyIntOfStr(resp.retry_after[1])
             capped == IF wait.v < MaxRetryAfterWait THEN wait.v ELSE MaxRetryAfterWait
         IN  IF wait.exc # "" \/ capped < 0 THEN None ELSE Some(capped)

\* no outcome yet
NoOutcome == [exc |-> "", result |-> ErrorResult("")]

\* a lookup that has not sent anything yet
NewLookup ==
    [phase |-> "idle", attempts |-> 0, resp |-> Fault, raised |-> FALSE,
     slept |-> None, waited |-> None, outcome |-> NoOutcome]

NoLookups == <<>>

\* what urlopen does with the answer r to attempt number n of a lookup:
\* retry, return the response, or raise
AfterAttempt(r, n) ==
    LET total == RetryTotal - (n - 1)
    IN  IF r.fault
        THEN (IF total - 1 < 0 THEN "failed" ELSE "retrying")
        ELSE IF is_retry(r, total)
        THEN (IF total - 1 < 0 THEN "responded"
              ELSE IF has_retry_after(r) /\ parse_retry_after(r.retry_after[1]).exc # ""
              THEN "failed"
              ELSE "retrying")
        ELSE "responded"

\* Retry.sleep_for_retry: the Retry-After seconds slept before the next attempt
SleptForRetry(r) ==
    IF ~r.fault /\ has_retry_after(r) /\ parse_retry_after(r.retry_after[1]).exc = ""
       /\ parse_retry_after(r.retry_after[1]).seconds > 0
    THEN Some(parse_retry_after(r.retry_after[1]).seconds)
    ELSE None

\* one HTTP attempt of lookup i is answered by r; raised tells that
\* session.get ended in an exception
LookupAttempt(i, r) ==
    /\ lk[i].phase \in {"idle", "retrying"}
    /\ lk' = [lk EXCEPT ![i].attempts = @ + 1,
                        ![i].resp = r,
                        ![i].phase = AfterAttempt(r, lk[i].attempts + 1),
                        ![i].raised = (AfterAttempt(r, lk[i].attempts + 1) = "failed"),
                        ![i].slept = IF AfterAttempt(r, lk[i].attempts + 1) = "retrying"
                                     THEN SleptForRetry(r) ELSE None]
    /\ UNCHANGED <<pc, args, df, xlsx_stats, tasks, futures, results, classification,
                   in_items, in_no_id, issued, gets, load, called, outputs>>

\* the worker of lookup i sleeps on the Retry-After header of its final 429
LookupWait(i) ==
    /\ lk[i].phase = "responded"
    /\ RetryAfterWait(lk[i].resp) # None
    /\ lk' = [lk EXCEPT ![i].phase = "waiting",
                        ![i].waited = RetryAfterWait(lk[i].resp)]
    /\ UNCHANGED <<pc, args, df, xlsx_stats, tasks, futures, results, classification,
                   in_items, in_no_id, issued, gets, load, called, outputs>>

\* check_product_api of lookup i returns or raises
LookupReturn(i) ==
    /\ \/ lk[i].phase = "failed"
       \/ lk[i].phase = "waiting"
       \/ lk[i].phase = "responded" /\ RetryAfterWait(lk[i].resp) = None
    /\ lk' = [lk EXCEPT ![i].phase = "returned",
                        ![i].outcome = check_product_api(IF lk[i].phase = "failed"
                                                         THEN Fault ELSE lk[i].resp)]
    /\ UNCHANGED <<pc, args, df, xlsx_stats, tasks, futures, results, classification,
                   in_items, in_no_id, issued, gets, load, called, outputs>>

-----------------------------------------------------------------------------
(* check_products_batch: the task list and the futures *)

\* int(pcf_id) of a row's identifier cell: text is parsed as an integer
\* literal
PcfIdInt_WithoutFloat(row) ==
    IF row.pcf_id.t = "str" THEN PyIntOfStr(row.pcf_id.s)
    ELSE PyIntOfFloat(PyFloat(row.pcf_id))

\* int(float(pcf_id)) of a row's identifier cell
PcfIdInt(row) == PyIntOfFloat(PyFloat(row.pcf_id))

\* the loop of lines 290-296: rows whose conversion raises ValueError or
\* TypeError are skipped
BatchTasks(df_with_ids) ==
    LET kept == SelectSeq(df_with_ids, LAMBDA r : PcfIdInt(r).exc = "")
    IN  [i \in 1..Len(kept) |-> [pid |-> PcfIdInt(kept[i]).v, row |-> kept[i]]]

\* an exception of the conversion that the loop does not catch
BatchTasksRaises(df_with_ids) ==
    \E i \in 1..Len(df_with_ids) :
        PcfIdInt(df_with_ids[i]).exc \notin {"", "ValueError", "TypeError"}

NewFuture == [state |-> "pending", collected |-> FALSE, outcome |-> NoOutcome]

\* a store that holds one slot for the latest result: each new entry
\* replaces the one before it
results_append_Overwrites(res, entry) ==
    IF res = <<>> THEN <<entry>> ELSE [res EXCEPT ![Len(res)] = entry]

\* results.append({...}) of line 321
results_append(res, entry) == Append(res, entry)

Running == {t \in DOMAIN futures : futures[t].state = "running"}
Pending == {t \in DOMAIN futures : futures[t].state = "pending"}

\* leaving the loop at the first collected result
BatchDrained_AnyCollected == \E t \in DOMAIN futures : futures[t].collected

\* as_completed has yielded every future: the for loop of line 306 is over
BatchDrained == \A t \in DOMAIN futures : futures[t].collected

\* a thread started for every submitted work item
WorkerFree_Unbounded == TRUE

\* the pool has an idle thread for the next queued work item
WorkerFree == Cardinality(Running) < args.workers

\* every result joined with the row submitted last
JoinedTask_LastSubmitted(t) == tasks[Len(tasks)]

\* except Exception of line 313 narrowed to the errors of the requests library
CaughtByBatch_OnlyRequestErrors(exc) == exc \in {"", "RequestException"}

\* except Exception of line 313: every exception a worker can raise is caught;
\* only KeyboardInterrupt and SystemExit are outside Exception
CaughtByBatch(exc) == exc \notin {"KeyboardInterrupt", "SystemExit"}

\* every worker asking for the identifier submitted first
RequestedId_FirstSubmitted(t) == tasks[1].pid

\* the identifier a worker puts in the URL: the pid it was submitted with
RequestedId(t) == tasks[t].pid

\* the row a result is joined with: futures[future] of line 307
JoinedTask(t) == tasks[t]

-----------------------------------------------------------------------------
(* main *)

\* the threshold of the healthy tier and of the warning tier (lines 424, 428)
HealthyAbove == 100
WarningAbove == 0

\* the sum of line 421 and of line 1443
total_eligible(cls) ==
    Len(cls.publish_ready) + Len(cls.missing_ficha) + Len(cls.need_creation)

\* the if / elif / else of lines 424-435 with the first test as >=
status_class_HealthyFrom(n) ==
    IF n >= HealthyAbove THEN "healthy"
    ELSE IF n > WarningAbove THEN "warning"
    ELSE "critical"

\* the if / elif / else of lines 424-435
status_class(n) ==
    IF n > HealthyAbove THEN "healthy"
    ELSE IF n > WarningAbove THEN "warning"
    ELSE "critical"

\* the sum of line 421 with the already_mayorista bucket added
generate_html_dashboard_CountsPublished(cls) ==
    [total_eligible |-> total_eligible(cls) + Len(cls.already_mayorista),
     status_class |-> status_class(total_eligible(cls) + Len(cls.already_mayorista))]

\* generate_html_dashboard: the eligible total and the status tier written
\* into the page
generate_html_dashboard(cls) ==
    [total_eligible |-> total_eligible(cls),
     status_class |-> status_class(total_eligible(cls))]

NoDashboard == [total_eligible |-> 0, status_class |-> ""]

\* the vendor names of the sheets, in the ascending order of str.__lt__
VendorNames == <<"acme", "bolt", "zeta">>

\* the sort key of lines 446-501: lambda x: x.get("vendor_name", "")
vendor_name(p) == p.row.vendor

\* key(a) < key(b) as sorted evaluates it when it does not raise: NaN < NaN
\* is False
VendorLess(a, b) ==
    /\ a # VendorNaN
    /\ b # VendorNaN
    /\ \E i, j \in DOMAIN VendorNames :
          VendorNames[i] = a /\ VendorNames[j] = b /\ i < j

\* '<' between a str key and a float key raises TypeError: sorted compares
\* each element with one placed before it, so a bucket that holds both kinds
\* of key cannot be sorted
SortRaises(bucket) ==
    \E i, j \in DOMAIN bucket :
        vendor_name(bucket[i]) = VendorNaN /\ vendor_name(bucket[j]) # VendorNaN

\* the entries of the bucket whose key is the k-th vendor name or a later
\* one, grouped by key and in bucket order within a key
RECURSIVE ByVendorFrom(_, _)
ByVendorFrom(bucket, k) ==
    IF k > Len(VendorNames) THEN <<>>
    ELSE SelectSeq(bucket, LAMBDA p : vendor_name(p) = VendorNames[k])
         \o ByVendorFrom(bucket, k + 1)

\* sorted(bucket, key=...) when it does not raise: ascending and stable; no
\* '<' between two NaN keys is true, which leaves a bucket of NaN keys as it is
SortedByVendor(bucket) ==
    ByVendorFrom(bucket, 1)
    \o SelectSeq(bucket, LAMBDA p : vendor_name(p) = VendorNaN)

\* the buckets whose tables are built from sorted(...) (lines 446, 460, 474,
\* 487, 501); api_errors has no table
SortedBuckets ==
    {"publish_ready", "missing_ficha", "need_creation", "already_mayorista",
     "has_pcf_stock"}

\* generate_html_dashboard raises before anything is written
DashboardRaises(cls) == \E b \in SortedBuckets : SortRaises(cls[b])

\* the rows of the five tables, top to bottom
DashboardTables(cls) == [b \in SortedBuckets |-> SortedByVendor(cls[b])]

NoTables == [b \in SortedBuckets |-> <<>>]

\* nothing printed or written yet
NoOutputs ==
    [html |-> "none", json |-> FALSE, dashboard |-> NoDashboard,
     tables |-> NoTables, console_total |-> None, json_total |-> None,
     json_buckets |-> EmptyClassification]

\* empty_class of lines 1355 and 1369
empty_class ==
    [publish_ready |-> <<>>, missing_ficha |-> <<>>, need_creation |-> <<>>,
     already_mayorista |-> <<>>, has_pcf_stock |-> <<>>, api_errors |-> <<>>]

\* the empty dashboard of lines 1354-1361 and 1368-1375 followed by a JSON
\* report of the empty buckets
PlaceholderOutputs_WithJson ==
    [NoOutputs EXCEPT !.html = "placeholder",
                      !.dashboard = generate_html_dashboard(empty_class),
                      !.json = TRUE,
                      !.json_total = Some(0)]

\* the empty dashboard of lines 1354-1361 and 1368-1375
PlaceholderOutputs ==
    [NoOutputs EXCEPT !.html = "placeholder",
                      !.dashboard = generate_html_dashboard(empty_class)]

\* the dictionary main appends to publish_ready when the API is not used
PublishEntry(row) ==
    [pcf_id |-> IF IsNa(row.pcf_id) THEN None ELSE Some(PcfIdInt(row).v), row |-> row]

\* lines 1404-1431: the branch taken without lookups
SkipClassification(stats) ==
    [EmptyClassification EXCEPT
        !.publish_ready = [i \in 1..Len(stats.has_pcf_id) |-> PublishEntry(stats.has_pcf_id[i])],
        !.need_creation = [i \in 1..Len(stats.no_pcf_id) |-> NoIdEntry(stats.no_pcf_id[i])]]

\* the condition of line 1400
UsesApi == ~args.skip_api /\ Len(xlsx_stats.has_pcf_id) > 0

\* read_google_sheet (line 1350) or read_price_file (line 1379) returned a
\* frame, with or without the expected columns
ReadSourceOk ==
    /\ pc = "read"
    /\ \E l \in {"ok", "no_columns"} : load' = l
    /\ pc' = "filter"
    /\ UNCHANGED <<args, df, xlsx_stats, tasks, futures, results, classification,
                   in_items, in_no_id, issued, gets, called, outputs, lk>>

\* read_google_sheet raised: empty dashboard and return (lines 1352-1362)
ReadGoogleSheetFails ==
    /\ pc = "read"
    /\ load' = "gsheet_error"
    /\ outputs' = PlaceholderOutputs
    /\ called' = called \cup {"generate_html_dashboard"}
    /\ pc' = "done"
    /\ UNCHANGED <<args, df, xlsx_stats, tasks, futures, results, classification,
                   in_items, in_no_id, issued, gets, lk>>

\* find_latest_price_file returned None: empty dashboard and return
\* (lines 1366-1376)
NoPriceFile ==
    /\ pc = "read"
    /\ load' = "no_price_file"
    /\ outputs' = PlaceholderOutputs
    /\ called' = called \cup {"generate_html_dashboard"}
    /\ pc' = "done"
    /\ UNCHANGED <<args, df, xlsx_stats, tasks, futures, results, classification,
                   in_items, in_no_id, issued, gets, lk>>

\* pd.read_excel raised inside read_price_file: line 1379 is outside any try
ReadPriceFileRaises ==
    /\ pc = "read"
    /\ load' = "read_excel_error"
    /\ pc' = "crashed"
    /\ UNCHANGED <<args, df, xlsx_stats, tasks, futures, results, classification,
                   in_items, in_no_id, issued, gets, called, outputs, lk>>

\* xlsx_stats = apply_xlsx_filters(df); df[COL_AVAILABLE_QTY] of line 143
\* raises KeyError on a frame without the column; an exception ends the run
ApplyXlsxFilters ==
    /\ pc = "filter"
    /\ xlsx_stats' = IF load = "no_columns" THEN RaisedStats("KeyError", df)
                     ELSE apply_xlsx_filters(df)
    /\ called' = called \cup {"apply_xlsx_filters"}
    /\ pc' = IF xlsx_stats'.exc = "" THEN "api" ELSE "crashed"
    /\ UNCHANGED <<args, df, tasks, futures, results, classification,
                   in_items, in_no_id, issued, gets, load, outputs, lk>>

\* check_products_batch up to the submission of every task to the pool
SubmitLookups ==
    /\ pc = "api"
    /\ UsesApi
    /\ called' = called \cup {"check_products_batch"}
    /\ IF BatchTasksRaises(xlsx_stats.has_pcf_id)
       THEN pc' = "crashed" /\ UNCHANGED <<tasks, futures, lk>>
       ELSE /\ pc' = "batch"
            /\ tasks' = BatchTasks(xlsx_stats.has_pcf_id)
            /\ futures' = [t \in 1..Len(tasks') |-> NewFuture]
    /\ results' = <<>>
    /\ UNCHANGED <<args, df, xlsx_stats, classification, in_items, in_no_id,
                   issued, gets, load, outputs, lk>>

\* a pool thread takes the oldest queued work item and enters check_product_api
WorkerStart(t) ==
    /\ pc = "batch"
    /\ futures[t].state = "pending"
    /\ \A u \in Pending : t <= u
    /\ WorkerFree
    /\ futures' = [futures EXCEPT ![t].state = "running"]
    /\ UNCHANGED <<pc, args, df, xlsx_stats, tasks, results, classification,
                   in_items, in_no_id, issued, gets, load, called, outputs, lk>>

\* the worker sends the GET, interprets the response and its future completes
WorkerFinish(t) ==
    /\ pc = "batch"
    /\ futures[t].state = "running"
    /\ futures' = [futures EXCEPT ![t].state = "finished",
                                  ![t].outcome = LookupOutcome[RequestedId(t)]]
    /\ issued' = issued \cup {tasks[t].row.idx}
    /\ gets' = gets (+) SetToBag({<<tasks[t].row.idx, RequestedId(t)>>})
    /\ UNCHANGED <<pc, args, df, xlsx_stats, tasks, results, classification,
                   in_items, in_no_id, load, called, outputs, lk>>

\* one iteration of the as_completed loop: a completed future is joined with
\* its row and appended to results; an exception of future.result() that the
\* except clause of line 313 does not catch leaves check_products_batch
Collect(t) ==
    /\ pc = "batch"
    /\ futures[t].state = "finished"
    /\ ~futures[t].collected
    /\ futures' = [futures EXCEPT ![t].collected = TRUE]
    /\ IF CaughtByBatch(futures[t].outcome.exc)
       THEN /\ results' = results_append(results,
                                         JoinRow(JoinedTask(t).pid, JoinedTask(t).row,
                                                 FutureResult(futures[t].outcome)))
            /\ pc' = pc
       ELSE /\ pc' = "crashed"
            /\ results' = results
    /\ UNCHANGED <<args, df, xlsx_stats, tasks, classification,
                   in_items, in_no_id, issued, gets, load, called, outputs, lk>>

\* check_products_batch returns and main calls classify_products
ClassifyProducts ==
    /\ pc = "batch"
    /\ BatchDrained
    /\ in_items' = results
    /\ in_no_id' = xlsx_stats.no_pcf_id
    /\ classification' = classify_products(results, xlsx_stats.no_pcf_id)
    /\ called' = called \cup {"classify_products"}
    /\ pc' = "report"
    /\ UNCHANGED <<args, df, xlsx_stats, tasks, futures, results, issued, gets, load, outputs, lk>>

\* the else branch of line 1404
SkipLookups ==
    /\ pc = "api"
    /\ ~UsesApi
    /\ classification' = SkipClassification(xlsx_stats)
    /\ pc' = "report"
    /\ UNCHANGED <<args, df, xlsx_stats, tasks, futures, results,
                   in_items, in_no_id, issued, gets, load, called, outputs, lk>>

\* lines 1433-1480: the summary is printed, then the dashboard and the JSON
\* report are written; a TypeError of sorted in generate_html_dashboard is
\* caught nowhere and ends the run before either file is opened
WriteReport ==
    /\ pc = "report"
    /\ IF DashboardRaises(classification)
       THEN /\ outputs' = [outputs EXCEPT
                              !.console_total = Some(total_eligible(classification))]
            /\ pc' = "crashed"
       ELSE /\ outputs' = [html |-> "report", json |-> TRUE,
                           dashboard |-> generate_html_dashboard(classification),
                           tables |-> DashboardTables(classification),
                           console_total |-> Some(total_eligible(classification)),
                           json_total |-> Some(total_eligible(classification)),
                           json_buckets |-> classification]
            /\ pc' = "done"
    /\ called' = called \cup {"generate_html_dashboard"}
    /\ UNCHANGED <<args, df, xlsx_stats, tasks, futures, results, classification,
                   in_items, in_no_id, issued, gets, load, lk>>

InitRest ==
    /\ xlsx_stats = NoStats
    /\ tasks = <<>>
    /\ futures = <<>>
    /\ results = <<>>
    /\ classification = EmptyClassification
    /\ issued = {}
    /\ gets = EmptyBag
    /\ lk = NoLookups
    /\ called = {}
    /\ outputs = NoOutputs

Init ==
    /\ pc = "read"
    /\ load = "unread"
    /\ args \in [skip_api : BOOLEAN, workers : 1..MaxWorkers]
    /\ df \in Sheets
    /\ in_items = <<>>
    /\ in_no_id = <<>>
    /\ InitRest

Next ==
    \/ ReadSourceOk
    \/ ReadGoogleSheetFails
    \/ NoPriceFile
    \/ ReadPriceFileRaises
    \/ ApplyXlsxFilters
    \/ SubmitLookups
    \/ \E t \in DOMAIN futures : WorkerStart(t)
    \/ \E t \in DOMAIN futures : WorkerFinish(t)
    \/ \E t \in DOMAIN futures : Collect(t)
    \/ ClassifyProducts
    \/ SkipLookups
    \/ WriteReport

Spec == Init /\ [][Next]_vars

\* the run from the submission of the lookups on, as the pool and main execute
\* it: an idle thread takes the next queued work item, a request returns
\* (timeout=30 at line 220 bounds each attempt), as_completed yields every
\* completed future, and main goes on after the batch
SpecLive ==
    /\ Init
    /\ [][Next]_vars
    /\ \A t \in 1..MaxRows :
          /\ WF_vars(t \in DOMAIN futures /\ WorkerStart(t))
          /\ WF_vars(t \in DOMAIN futures /\ WorkerFinish(t))
          /\ WF_vars(t \in DOMAIN futures /\ Collect(t))
    /\ WF_vars(ClassifyProducts)
    /\ WF_vars(WriteReport)

\* apply_xlsx_filters on its own, over every sheet of FilterSheets
InitFilter ==
    /\ pc = "filter"
    /\ load = "ok"
    /\ args = [skip_api |-> TRUE, workers |-> 1]
    /\ df \in FilterSheets
    /\ in_items = <<>>
    /\ in_no_id = <<>>
    /\ InitRest

SpecFilter == InitFilter /\ [][ApplyXlsxFilters]_vars

\* classify_products on its own, over every argument pair of the samples
ClassifyOnly ==
    /\ pc = "classify"
    /\ classification' = classify_products(in_items, in_no_id)
    /\ called' = called \cup {"classify_products"}
    /\ pc' = "classified"
    /\ UNCHANGED <<args, df, xlsx_stats, tasks, futures, results,
                   in_items, in_no_id, issued, gets, load, outputs, lk>>

InitClassify ==
    /\ pc = "classify"
    /\ load = "ok"
    /\ args = [skip_api |-> FALSE, workers |-> 1]
    /\ df = <<>>
    /\ in_items \in ItemSeqs
    /\ \E n \in 0..MaxNoId : in_no_id = NoIdRows(Len(in_items), n)
    /\ InitRest

SpecClassify == InitClassify /\ [][ClassifyOnly]_vars

\* NumLookups lookups running side by side, each answered attempt by attempt
InitLookup ==
    /\ pc = "batch"
    /\ load = "ok"
    /\ args = [skip_api |-> FALSE, workers |-> NumLookups]
    /\ df = <<>>
    /\ in_items = <<>>
    /\ in_no_id = <<>>
    /\ xlsx_stats = NoStats
    /\ tasks = <<>>
    /\ futures = <<>>
    /\ results = <<>>
    /\ classification = EmptyClassification
    /\ issued = {}
    /\ gets = EmptyBag
    /\ called = {"apply_xlsx_filters", "check_products_batch"}
    /\ outputs = NoOutputs
    /\ lk = [i \in 1..NumLookups |-> NewLookup]

\* the interpretation of one final response on its own, over FinalResponses
\* and a final network fault
InitStock ==
    /\ pc = "batch"
    /\ load = "ok"
    /\ args = [skip_api |-> FALSE, workers |-> 1]
    /\ df = <<>>
    /\ in_items = <<>>
    /\ in_no_id = <<>>
    /\ xlsx_stats = NoStats
    /\ tasks = <<>>
    /\ futures = <<>>
    /\ results = <<>>
    /\ classification = EmptyClassification
    /\ issued = {}
    /\ gets = EmptyBag
    /\ called = {"apply_xlsx_filters", "check_products_batch"}
    /\ outputs = NoOutputs
    /\ \/ \E r \in FinalResponses :
             lk = <<[NewLookup EXCEPT !.phase = "responded", !.attempts = 1, !.resp = r]>>
       \/ lk = <<[NewLookup EXCEPT !.phase = "failed", !.attempts = RetryTotal + 1,
                                   !.raised = TRUE]>>

SpecStock == InitStock /\ [][\E i \in DOMAIN lk : LookupReturn(i)]_vars

NextLookup ==
    \/ \E i \in DOMAIN lk : \E r \in AttemptResponses : LookupAttempt(i, r)
    \/ \E i \in DOMAIN lk : LookupWait(i)
    \/ \E i \in DOMAIN lk : LookupReturn(i)

SpecLookup == InitLookup /\ [][NextLookup]_vars

\* most entries of publish_ready handed to the dashboard alone
MaxReady == 102

\* the entry of a looked-up row with identifier pid, as classify_products
\* files it
DashEntry(i, pid) ==
    LET row == Row(i, Some(5), Str(TxtNew), IntCell(pid), "acme")
    IN  JoinRow(pid, row, FutureResult(check_product_api(Catalog(pid))))

\* final buckets with n entries in publish_ready and at most one entry in
\* missing_ficha, need_creation and already_mayorista
DashClassification(n, f, c, m) ==
    [EmptyClassification EXCEPT
        !.publish_ready = [i \in 1..n |-> DashEntry(i, 1)],
        !.missing_ficha = [i \in 1..f |-> DashEntry(n + i, 2)],
        !.need_creation = [i \in 1..c |-> DashEntry(n + f + i, 5)],
        !.already_mayorista = [i \in 1..m |-> DashEntry(n + f + c + i, 3)]]

\* the reporting step of main on its own: after classification, over every
\* bucket size up to MaxReady, and at the start of a run whose source fails
InitDashboard ==
    /\ args = [skip_api |-> FALSE, workers |-> 1]
    /\ df = <<>>
    /\ in_items = <<>>
    /\ in_no_id = <<>>
    /\ xlsx_stats = NoStats
    /\ tasks = <<>>
    /\ futures = <<>>
    /\ results = <<>>
    /\ issued = {}
    /\ gets = EmptyBag
    /\ lk = NoLookups
    /\ outputs = NoOutputs
    /\ \/ /\ pc = "read"
          /\ load = "unread"
          /\ called = {}
          /\ classification = EmptyClassification
       \/ /\ pc = "report"
          /\ load = "ok"
          /\ called = {"apply_xlsx_filters", "check_products_batch", "classify_products"}
          /\ \E n \in 0..MaxReady, f, c, m \in 0..1 :
                classification = DashClassification(n, f, c, m)

NextDashboard ==
    \/ WriteReport
    \/ ReadGoogleSheetFails
    \/ NoPriceFile

SpecDashboard == InitDashboard /\ [][NextDashboard]_vars

-----------------------------------------------------------------------------
(* Vocabulary of the properties, written from the specification's words *)

Occurrences(seq, x) == Cardinality({j \in 1..Len(seq) : seq[j] = x})

\* entries of a bucket that stand for the row with index label k
EntriesOf(seq, k) == Cardinality({j \in 1..Len(seq) : seq[j].row.idx = k})

InBucket(b, k) == EntriesOf(classification[b], k) > 0

\* entries for row k over the six buckets
BucketEntries(k) ==
    EntriesOf(classification.publish_ready, k)
    + EntriesOf(classification.missing_ficha, k)
    + EntriesOf(classification.need_creation, k)
    + EntriesOf(classification.already_mayorista, k)
    + EntriesOf(classification.has_pcf_stock, k)
    + EntriesOf(classification.api_errors, k)

BucketSizes ==
    Len(classification.publish_ready) + Len(classification.missing_ficha)
    + Len(classification.need_creation) + Len(classification.already_mayorista)
    + Len(classification.has_pcf_stock) + Len(classification.api_errors)

\* available quantity > 0 (a missing quantity counts as 0)
Stocked(row) == row.qty # None /\ row.qty[1] > 0

\* the creation-reason tag contains CLEARANCE, in any letter case
ClearanceTagged(row) ==
    row.reason.t = "str" /\ Contains(Lower(row.reason.s), ClearanceLower)

\* the identifier is present, not blank, not a sentinel token, and parses as a
\* floating-point number that truncates to an integer
ValidIdentifier(cell) ==
    /\ ~IsNa(cell)
    /\ Strip(PyStr(cell)) # <<>>
    /\ Lower(Strip(PyStr(cell))) \notin SentinelIds
    /\ PyFloatOfStr(PyStr(cell)).exc = ""
    /\ PyFloatOfStr(PyStr(cell)).kind = "finite"

Eligible(row) == Stocked(row) /\ ~ClearanceTagged(row)

\* the source was read with its columns and apply_xlsx_filters was called
Filtered == load = "ok" /\ "apply_xlsx_filters" \in called
Classified == "classify_products" \in called

\* the run is over: main returned, or an exception left it
RunEnded == pc \in {"done", "crashed"}

SeqToBag(s) ==
    [x \in {s[i] : i \in 1..Len(s)} |-> Cardinality({i \in 1..Len(s) : s[i] = x})]

SeqToSet(s) == {s[i] : i \in 1..Len(s)}

-----------------------------------------------------------------------------
(* Properties *)

\* C1: once apply_xlsx_filters has been applied to a sheet, every row of the
\* sheet is in exactly one of out_of_stock (sin_stock_df), clearance_excluded
\* (clearance_products), the valid-identifier set (has_pcf_id) and the
\* invalid-identifier set (no_pcf_id), and the four sizes sum to the number of
\* rows of the sheet.
C1_FourWayPartition ==
    Filtered =>
        /\ \A i \in 1..Len(df) :
              Occurrences(xlsx_stats.sin_stock_df, df[i])
              + Occurrences(xlsx_stats.clearance_products, df[i])
              + Occurrences(xlsx_stats.has_pcf_id, df[i])
              + Occurrences(xlsx_stats.no_pcf_id, df[i]) = 1
        /\ Len(xlsx_stats.sin_stock_df) + Len(xlsx_stats.clearance_products)
           + Len(xlsx_stats.has_pcf_id) + Len(xlsx_stats.no_pcf_id) = Len(df)

\* C2: after classify_products, every entry of the lookup results and every
\* invalid-identifier row is in exactly one of the six buckets, once, and the
\* bucket sizes sum to the number of results plus the number of such rows.
C2_ClassifierPartition ==
    Classified =>
        /\ \A i \in 1..Len(in_items) : BucketEntries(in_items[i].row.idx) = 1
        /\ \A j \in 1..Len(in_no_id) : BucketEntries(in_no_id[j].idx) = 1
        /\ BucketSizes = Len(in_items) + Len(in_no_id)

C2_Witness ==
    /\ Classified
    /\ Len(in_items) >= 2
    /\ Len(in_no_id) >= 1
    /\ Cardinality({b \in BucketNames : classification[b] # <<>>}) >= 3

\* C3: at the end of every run that got past input loading, the six outcome
\* buckets hold exactly the rows with available quantity > 0 and without the
\* clearance tag, each once, and out_of_stock and clearance_excluded hold
\* exactly the other rows.
C3_RunAccountsForEveryRow ==
    (RunEnded /\ Filtered) =>
        /\ \A i \in 1..Len(df) :
              BucketEntries(df[i].idx) = (IF Eligible(df[i]) THEN 1 ELSE 0)
        /\ BucketSizes = Cardinality({i \in 1..Len(df) : Eligible(df[i])})
        /\ \A i \in 1..Len(df) :
              Occurrences(xlsx_stats.sin_stock_df, df[i])
              + Occurrences(xlsx_stats.clearance_products, df[i])
                  = (IF Eligible(df[i]) THEN 0 ELSE 1)

\* C4: a catalog lookup is only ever issued for a row that is stocked, is not
\* tagged clearance and has a valid identifier.
C4_LookupsOnlyForValidRows ==
    \A i \in 1..Len(df) :
        df[i].idx \in issued =>
            /\ Stocked(df[i])
            /\ ~ClearanceTagged(df[i])
            /\ ValidIdentifier(df[i].pcf_id)

C4_Witness ==
    /\ pc = "done"
    /\ issued # {}
    /\ \E i \in 1..Len(df) : ~Stocked(df[i]) /\ df[i].idx \notin issued
    /\ \E i \in 1..Len(df) :
          Stocked(df[i]) /\ (ClearanceTagged(df[i]) \/ ~ValidIdentifier(df[i].pcf_id))
          /\ df[i].idx \notin issued

\* C5: each candidate is placed by the first matching rule, whatever the other
\* candidates are: error, then not-found, then visibility true, then stock
\* known and > 0, then the description flag; visibility true with stock > 0
\* is already_published and not has_own_stock.
C5_FirstMatchOrder ==
    Classified =>
        \A i \in 1..Len(in_items) :
            LET it == in_items[i]
                k == it.row.idx
                found == it.api_status \notin {"error", "not_found"}
                visible == it.mayorista = "True"
                positive == it.stock_pcf # None /\ it.stock_pcf[1] > 0
            IN  /\ it.api_status = "error" => InBucket("api_errors", k)
                /\ it.api_status = "not_found" => InBucket("need_creation", k)
                /\ (found /\ visible) =>
                      InBucket("already_mayorista", k) /\ ~InBucket("has_pcf_stock", k)
                /\ (found /\ ~visible /\ positive) => InBucket("has_pcf_stock", k)
                /\ (found /\ ~visible /\ ~positive /\ it.ficha_vacia = "True") =>
                      InBucket("missing_ficha", k)
                /\ (found /\ ~visible /\ ~positive /\ it.ficha_vacia = "False") =>
                      InBucket("publish_ready", k)

C5_Witness ==
    /\ Classified
    /\ \E i \in 1..Len(in_items) :
          /\ in_items[i].api_status = "ok"
          /\ in_items[i].mayorista = "True"
          /\ in_items[i].stock_pcf = Some(3)
          /\ InBucket("already_mayorista", in_items[i].row.idx)
    /\ \E i \in 1..Len(in_items) :
          /\ in_items[i].api_status = "ok"
          /\ in_items[i].mayorista = "False"
          /\ in_items[i].stock_pcf = Some(3)
          /\ InBucket("has_pcf_stock", in_items[i].row.idx)

\* C6: a candidate whose lookup result is an error is in lookup_errors
\* (api_errors) and in no other bucket, whatever its visibility, stock and
\* description fields hold.
C6_ErrorAlwaysLookupError ==
    Classified =>
        \A i \in 1..Len(in_items) :
            in_items[i].api_status = "error" =>
                /\ EntriesOf(classification.api_errors, in_items[i].row.idx) = 1
                /\ \A b \in BucketNames \ {"api_errors"} :
                      ~InBucket(b, in_items[i].row.idx)

C6_Witness ==
    /\ Classified
    /\ \E i \in 1..Len(in_items) :
          /\ in_items[i].api_status = "error"
          /\ in_items[i].mayorista = "True"
          /\ in_items[i].stock_pcf = Some(3)
          /\ InBucket("api_errors", in_items[i].row.idx)

\* C7: every stocked, non-clearance row with an invalid identifier ends the
\* run in needs_creation (need_creation), once, in no other bucket, and no
\* lookup was issued for it.
C7_InvalidIdEndsInNeedCreation ==
    (RunEnded /\ Filtered) =>
        \A i \in 1..Len(df) :
            (Eligible(df[i]) /\ ~ValidIdentifier(df[i].pcf_id)) =>
                /\ EntriesOf(classification.need_creation, df[i].idx) = 1
                /\ BucketEntries(df[i].idx) = 1
                /\ df[i].idx \notin issued

\* C8: a malformed identifier is never fatal: when the clearance filter has
\* text tags to work on, apply_xlsx_filters returns, and every stocked,
\* non-clearance row whose identifier is not valid is in the
\* invalid-identifier set that feeds needs_creation.
C8_MalformedIdNotFatal ==
    (Filtered /\ \E i \in 1..Len(df) : ~IsNa(df[i].reason)) =>
        \A i \in 1..Len(df) :
            (Eligible(df[i]) /\ ~ValidIdentifier(df[i].pcf_id)) =>
                /\ xlsx_stats.exc = ""
                /\ Occurrences(xlsx_stats.no_pcf_id, df[i]) = 1

\* C9: classify_products is not entered while a submitted lookup is still
\* queued or in flight: once it has been called, every future has completed
\* and has been collected.
C9_ClassifyAfterAllLookups ==
    Classified =>
        \A t \in DOMAIN futures :
            futures[t].state = "finished" /\ futures[t].collected

C9_Witness ==
    /\ Classified
    /\ Len(tasks) >= 2
    /\ args.workers = 1
    /\ Len(results) = Len(tasks)

\* the results check_products_batch returns when every lookup is made in
\* submission order, one at a time
SequentialResults(rows) ==
    [i \in 1..Len(rows) |->
        JoinRow(PcfIdInt(rows[i]).v, rows[i],
                FutureResult(check_product_api(Catalog(PcfIdInt(rows[i]).v))))]

\* C10: for given valid-identifier rows and a given response per identifier,
\* check_products_batch returns the same multiset of (row, result) entries
\* for every concurrency degree and every completion order, and every bucket
\* holds the same set of entries.
C10_ResultsIndependentOfConcurrency ==
    Classified =>
        LET sequential == SequentialResults(xlsx_stats.has_pcf_id)
            buckets == classify_products(sequential, xlsx_stats.no_pcf_id)
        IN  /\ SeqToBag(in_items) = SeqToBag(sequential)
            /\ \A b \in BucketNames :
                  SeqToSet(classification[b]) = SeqToSet(buckets[b])

C10_Witness ==
    /\ Classified
    /\ args.workers >= 2
    /\ Len(in_items) >= 2
    /\ in_items # SequentialResults(xlsx_stats.has_pcf_id)

\* GETs sent for the row with index label k
LookupsFor(k) ==
    BagCardinality([x \in {y \in BagToSet(gets) : y[1] = k} |-> gets[x]])

\* the integer a row's identifier cell stands for
OwnId(row) == PcfIdInt(row).v

\* the Lookup Result of a row's own identifier
OwnLookup(row) == FutureResult(check_product_api(Catalog(OwnId(row))))

\* the row entered the lookup stage: stocked, not clearance, identifier valid
ValidRow(row) == Eligible(row) /\ ValidIdentifier(row.pcf_id)

\* C11: check_products_batch sends exactly one GET per valid-identifier row,
\* for that row's identifier, and returns exactly one entry per such row that
\* carries the row together with the result of its own lookup, whatever the
\* completion order and also when two rows carry the same identifier; no
\* other row gets a lookup or an entry.
C11_OneLookupPerRowJoinedWithOwnRow ==
    /\ \A j \in 1..Len(results) :
          results[j] = JoinRow(OwnId(results[j].row), results[j].row,
                               OwnLookup(results[j].row))
    /\ \A x \in BagToSet(gets) : x[2] = OwnId(CHOOSE r \in SeqToSet(df) : r.idx = x[1])
    /\ \A i \in 1..Len(df) : LookupsFor(df[i].idx) <= 1
    /\ Classified =>
          \A i \in 1..Len(df) :
              /\ LookupsFor(df[i].idx) = (IF ValidRow(df[i]) THEN 1 ELSE 0)
              /\ EntriesOf(results, df[i].idx) = (IF ValidRow(df[i]) THEN 1 ELSE 0)

\* two rows with the same identifier, collected in the reverse of their
\* submission order
C11_Witness ==
    /\ Classified
    /\ \E j, k \in 1..Len(results) :
          /\ j < k
          /\ results[j].pcf_id = results[k].pcf_id
          /\ results[j].row.idx > results[k].row.idx
          /\ LookupsFor(results[j].row.idx) = 1
          /\ LookupsFor(results[k].row.idx) = 1

\* the lookup of a row fails: network fault, a final status that is neither
\* success nor 404, or a success whose body is not a JSON object
LookupFails(row) ==
    LET resp == Catalog(OwnId(row))
    IN  \/ resp.fault
        \/ resp.status >= 400 /\ resp.status # 404
        \/ resp.status < 400 /\ resp.body.form # "object"

\* the bucket a row lands in when it is the only Candidate
BucketAlone(row) ==
    LET alone == classify_products(<<JoinRow(OwnId(row), row, OwnLookup(row))>>, <<>>)
    IN  {b \in BucketNames : alone[b] # <<>>}

\* C12: a failed lookup never aborts the batch: once lookups are submitted no
\* exception ends the run before classification, the Candidate whose lookup
\* failed gets an error Lookup Result and ends in lookup_errors (api_errors),
\* and every other Candidate is in the bucket its own result alone puts it in.
C12_LookupFailureIsIsolated ==
    /\ pc = "crashed" => tasks = <<>> \/ Classified
    /\ Classified =>
          /\ Len(in_items) = Len(xlsx_stats.has_pcf_id)
          /\ \A i \in 1..Len(df) :
                ValidRow(df[i]) =>
                    /\ BucketEntries(df[i].idx) = 1
                    /\ IF LookupFails(df[i])
                       THEN /\ InBucket("api_errors", df[i].idx)
                            /\ \A j \in 1..Len(in_items) :
                                  in_items[j].row = df[i] => in_items[j].api_status = "error"
                       ELSE /\ ~InBucket("api_errors", df[i].idx)
                            /\ \A b \in BucketAlone(df[i]) : InBucket(b, df[i].idx)

\* a worker raised on a malformed body, its error result was collected first,
\* and a later Candidate was still looked up and classified by its own result
C12_Witness ==
    /\ Classified
    /\ pc = "done"
    /\ \E j, k \in 1..Len(in_items) :
          /\ j < k
          /\ in_items[j].error = "AttributeError"
          /\ InBucket("api_errors", in_items[j].row.idx)
          /\ in_items[k].api_status = "ok"
          /\ ~InBucket("api_errors", in_items[k].row.idx)

\* the explicit unknown sentinel (None) in a field of a Lookup Result
UnknownFlag(v) == v = "None"
UnknownNumber(v) == v = None

\* C13: in every error Lookup Result, visibility, stock, display name, normal
\* price, offer price and has-substantive-description all carry the unknown
\* sentinel; none of them is zero or false.
C13_ErrorFieldsAreUnknown ==
    \A j \in 1..Len(results) :
        results[j].api_status = "error" =>
            /\ UnknownFlag(results[j].mayorista)
            /\ UnknownNumber(results[j].stock_pcf)
            /\ UnknownFlag(results[j].ficha_vacia)
            /\ UnknownFlag(results[j].nombre_pcf)
            /\ UnknownNumber(results[j].precio_normal)
            /\ UnknownNumber(results[j].precio_oferta)
            /\ results[j].precio_normal # Some(0)
            /\ results[j].precio_oferta # Some(0)

\* the final response of a row's lookup has status 404
Answers404(row) ==
    LET resp == Catalog(OwnId(row))
    IN  ~resp.fault /\ resp.status = 404

\* C14: a lookup whose final status is 404 yields a not-found Lookup Result,
\* not an error, with visibility false and stock 0, and its Candidate is in
\* needs_creation (need_creation) and not in lookup_errors (api_errors).
C14_NotFoundGoesToNeedCreation ==
    /\ \A j \in 1..Len(results) :
          Answers404(results[j].row) =>
              /\ results[j].api_status = "not_found"
              /\ results[j].error = ""
              /\ results[j].mayorista = "False"
              /\ results[j].stock_pcf = Some(0)
    /\ Classified =>
          \A i \in 1..Len(df) :
              (ValidRow(df[i]) /\ Answers404(df[i])) =>
                  /\ EntriesOf(classification.need_creation, df[i].idx) = 1
                  /\ BucketEntries(df[i].idx) = 1
                  /\ ~InBucket("api_errors", df[i].idx)

C14_Witness ==
    /\ pc = "done"
    /\ \E j \in 1..Len(in_items) :
          /\ Answers404(in_items[j].row)
          /\ in_items[j].api_status = "not_found"
          /\ InBucket("need_creation", in_items[j].row.idx)

\* the source could not be read or lacks the expected columns
SourceFailed ==
    load \in {"gsheet_error", "no_price_file", "read_excel_error", "no_columns"}

\* C15: for every input-source failure (remote sheet unreachable, no local
\* file, local file unreadable, expected columns missing) the run ends without
\* an exception, with the placeholder report written, and without calling the
\* lookup client or the classifier.
C15_SourceFailureYieldsPlaceholder ==
    (RunEnded /\ SourceFailed) =>
        /\ pc = "done"
        /\ outputs.html = "placeholder"
        /\ "check_products_batch" \notin called
        /\ "classify_products" \notin called

\* C16: with the skip-API flag no lookup is ever issued, and at the end of the
\* run every valid-identifier row is in publish_ready, every invalid-identifier
\* row is in needs_creation (need_creation), and missing_ficha,
\* already_mayorista, has_pcf_stock and api_errors are empty.
C16_SkipApiDegradesToPublishReady ==
    args.skip_api =>
        /\ gets = EmptyBag
        /\ issued = {}
        /\ (RunEnded /\ Filtered) =>
              /\ \A i \in 1..Len(df) :
                    Eligible(df[i]) =>
                        /\ BucketEntries(df[i].idx) = 1
                        /\ IF ValidIdentifier(df[i].pcf_id)
                           THEN InBucket("publish_ready", df[i].idx)
                           ELSE InBucket("need_creation", df[i].idx)
              /\ classification.missing_ficha = <<>>
              /\ classification.already_mayorista = <<>>
              /\ classification.has_pcf_stock = <<>>
              /\ classification.api_errors = <<>>

\* |publish_ready| + |missing_description| + |needs_creation| of the buckets:
\* all entries less those of the three buckets that do not count
EligibleCount ==
    BucketSizes - Len(classification.already_mayorista)
    - Len(classification.has_pcf_stock) - Len(classification.api_errors)

\* C17: whenever a total-eligible count is reported - on the console, in the
\* HTML report or in the JSON summary - it equals |publish_ready| +
\* |missing_ficha| + |need_creation| of the final buckets; already_mayorista,
\* has_pcf_stock and api_errors do not contribute.
C17_TotalEligibleIsSumOfThree ==
    /\ outputs.console_total # None => outputs.console_total = Some(EligibleCount)
    /\ outputs.json => outputs.json_total = Some(EligibleCount)
    /\ outputs.html # "none" => outputs.dashboard.total_eligible = EligibleCount

\* a finished run that reports a total of one while two of the buckets that
\* do not count hold an entry
C17_Witness ==
    /\ pc = "done"
    /\ outputs.html = "report"
    /\ outputs.json
    /\ outputs.json_total = Some(1)
    /\ outputs.console_total = Some(1)
    /\ outputs.dashboard.total_eligible = 1
    /\ Cardinality({b \in {"already_mayorista", "has_pcf_stock", "api_errors"} :
                        classification[b] # <<>>}) = 2

\* C18: the health status depends on the total-eligible count alone: healthy
\* exactly when the count is above 100, warning exactly when it is between 1
\* and 100, critical exactly when it is 0; one of the three is always chosen,
\* and the placeholder report of a failed run is critical.
C18_StatusTiers ==
    outputs.html # "none" =>
        LET n == outputs.dashboard.total_eligible
            s == outputs.dashboard.status_class
        IN  /\ n = EligibleCount
            /\ s \in {"healthy", "warning", "critical"}
            /\ s = "healthy" <=> n > 100
            /\ s = "warning" <=> (0 < n /\ n <= 100)
            /\ s = "critical" <=> n = 0
            /\ outputs.html = "placeholder" => s = "critical"

\* a report of exactly 100 eligible products, with an already published
\* product beside them, shown as warning
C18_Witness ==
    /\ pc = "done"
    /\ outputs.html = "report"
    /\ outputs.dashboard.total_eligible = 100
    /\ outputs.dashboard.status_class = "warning"
    /\ classification.already_mayorista # <<>>

\* C20: during check_products_batch with concurrency degree N (args.workers),
\* at no time are more than N lookups between the start of their politeness
\* delay and the return of their result, however many identifiers were
\* submitted.
C20_AtMostNLookupsInFlight ==
    /\ args.workers >= 1
    /\ Cardinality(Running) <= args.workers

\* the pool is saturated while a submitted lookup still waits for a thread
C20_Witness ==
    /\ pc = "batch"
    /\ Cardinality(Running) = args.workers
    /\ Pending # {}
    /\ Len(tasks) > args.workers

\* the lookup used up its retries: six attempts, the last one a fault or a
\* status that asks for a retry
BudgetExhausted(l) ==
    /\ l.attempts = 6
    /\ l.resp.fault \/ l.resp.status \in {429, 500, 502, 503, 504}

\* the outcome of a returned lookup is what its last attempt allows: found only
\* on a 2xx, not-found only on a 404, and an error once the budget is exhausted
OutcomeMatchesLastAttempt(l) ==
    l.phase = "returned" =>
        /\ l.outcome.result.api_status = "ok" =>
              (~l.raised /\ l.resp.status \in 200..299)
        /\ l.outcome.result.api_status = "not_found" =>
              (~l.raised /\ l.resp.status = 404)
        /\ BudgetExhausted(l) =>
              /\ l.outcome.exc = ""
              /\ l.outcome.result.api_status = "error"
              /\ l.outcome.result.error = (IF l.raised THEN "RequestException" ELSE "HTTP")

Final429WithHeader(l) ==
    /\ l.phase \in {"responded", "waiting", "returned"}
    /\ ~l.raised
    /\ l.resp.status = 429
    /\ l.resp.retry_after # None

\* the header text is a non-negative integer
HeaderSeconds(l) == PyIntOfStr(l.resp.retry_after[1])

\* C22: on a final 429 whose Retry-After header is the integer w the worker
\* waits min(w, 20) seconds and returns an error outcome without another
\* request; with the header absent or not an integer there is no wait; no
\* wait exceeds 20 seconds; and a waiting worker blocks no other worker.
C22_RetryAfterWaitCapped ==
    \A i \in DOMAIN lk :
        /\ (Final429WithHeader(lk[i]) /\ lk[i].phase \in {"waiting", "returned"}
               /\ HeaderSeconds(lk[i]).exc = "") =>
              /\ lk[i].waited = Some(IF HeaderSeconds(lk[i]).v < 20
                                      THEN HeaderSeconds(lk[i]).v ELSE 20)
              /\ lk[i].attempts = 6
        /\ (Final429WithHeader(lk[i]) /\ lk[i].phase = "returned") =>
              /\ lk[i].outcome.exc = ""
              /\ lk[i].outcome.result.api_status = "error"
              /\ lk[i].outcome.result.error = "HTTP"
        /\ lk[i].waited # None =>
              /\ Final429WithHeader(lk[i])
              /\ HeaderSeconds(lk[i]).exc = ""
              /\ lk[i].waited[1] <= 20
        /\ lk[i].phase = "waiting" =>
              \A j \in DOMAIN lk \ {i} :
                  /\ lk[j].phase \in {"idle", "retrying"} => ENABLED LookupAttempt(j, Fault)
                  /\ lk[j].phase = "failed" => ENABLED LookupReturn(j)

\* a worker waits the capped 20 seconds of a Retry-After of 30 while the other
\* lookup is between two attempts
C22_Witness ==
    \E i, j \in DOMAIN lk :
        /\ lk[i].phase = "waiting"
        /\ lk[i].resp.retry_after = Some(<<"3", "0">>)
        /\ lk[i].waited = Some(20)
        /\ lk[j].phase = "retrying"
        /\ lk[j].attempts >= 1

\* the Lookup Result a returned lookup hands to the batch
ResultOf(l) == FutureResult(l.outcome)

\* C23: for every found Lookup Result, whatever raw stock value the Catalog
\* API returned, the approximate-stock count is a non-negative integer.
C23_FoundStockNonNegative ==
    \A i \in DOMAIN lk :
        (lk[i].phase = "returned" /\ ResultOf(lk[i]).api_status = "ok") =>
            /\ ResultOf(lk[i]).stock_pcf # None
            /\ ResultOf(lk[i]).stock_pcf[1] \in Nat

\* the text of a raw JSON value, None when the value is null or absent
RawText(v) ==
    CASE v.t = "str" -> Some(v.s)
      [] v.t = "int" -> Some(IntToStr(v.n))
      [] OTHER -> None

\* an integer written in decimal, with an optional sign: its value, or None
SignedDecimal(s) ==
    LET digits == IF s # <<>> /\ Head(s) \in {"+", "-"} THEN Tail(s) ELSE s
    IN  IF digits # <<>> /\ \A k \in 1..Len(digits) : IsDigit(digits[k])
        THEN Some((IF Head(s) = "-" THEN -1 ELSE 1) * DigitsToInt(digits))
        ELSE None

\* the stock the specification's rule gives for the raw "stock" value: the
\* approximate field of a record, else the scalar; trimmed; a leading '+'
\* removed; the rest read as an integer; 0 when there is nothing to read
ClaimedStock(stock) ==
    LET raw == IF stock.t = "dict"
               THEN (IF stock.has THEN RawText(stock.aproximado) ELSE None)
               ELSE RawText(stock)
        trimmed == IF raw = None THEN <<>> ELSE Strip(raw[1])
        rest == IF trimmed # <<>> /\ Head(trimmed) = "+" THEN Tail(trimmed) ELSE trimmed
    IN  IF SignedDecimal(rest) = None THEN 0 ELSE SignedDecimal(rest)[1]

\* C24: in a found outcome the stock is read from the record's approximate
\* field or from the scalar itself, a leading '+' is dropped and the rest
\* parsed as an integer ('+15' gives 15, '7' gives 7), and an absent, null,
\* empty or unparseable value gives 0; stock 0 occurs only in found and
\* not-found outcomes, and an error outcome always has stock unknown.
C24_StockParsing ==
    \A i \in DOMAIN lk :
        lk[i].phase = "returned" =>
            LET result == ResultOf(lk[i])
            IN  /\ result.api_status = "ok" =>
                      result.stock_pcf = Some(ClaimedStock(lk[i].resp.body.stock))
                /\ result.api_status = "error" => result.stock_pcf = None
                /\ result.stock_pcf = Some(0) => result.api_status \in {"ok", "not_found"}

\* a found outcome whose scalar stock '+15' was read as 15
C24_Witness ==
    \E i \in DOMAIN lk :
        /\ lk[i].phase = "returned"
        /\ ResultOf(lk[i]).api_status = "ok"
        /\ lk[i].resp.body.stock = Str(<<"+", "1", "5">>)
        /\ ResultOf(lk[i]).stock_pcf = Some(15)

\* C25: the identifier validity predicate holds for a row exactly when its
\* identifier, trimmed, is non-blank, is not a sentinel token (any letter
\* case) and parses as a floating-point number that truncates to an integer:
\* every stocked, non-clearance row goes to the valid-identifier set when that
\* is so and to the invalid-identifier set otherwise, and '123' and '123.0'
\* are valid with value 123.
C25_ValidityPredicate ==
    (Filtered /\ xlsx_stats.exc # "AttributeError") =>
        /\ xlsx_stats.exc = ""
        /\ \A i \in 1..Len(df) :
              Eligible(df[i]) =>
                  /\ Occurrences(xlsx_stats.has_pcf_id, df[i])
                        = (IF ValidIdentifier(df[i].pcf_id) THEN 1 ELSE 0)
                  /\ Occurrences(xlsx_stats.no_pcf_id, df[i])
                        = (IF ValidIdentifier(df[i].pcf_id) THEN 0 ELSE 1)
                  /\ df[i].pcf_id \in {Str(<<"1", "2", "3">>), Str(<<"1", "2", "3", ".", "0">>)} =>
                        /\ Occurrences(xlsx_stats.has_pcf_id, df[i]) = 1
                        /\ PcfIdInt(df[i]) = [exc |-> "", v |-> 123]

-----------------------------------------------------------------------------
(* Order of the buckets and of the report's tables *)

\* the classifier's input as one sequence: the lookup results in the order
\* they were collected, then the rows without a valid identifier
ClassifierInput ==
    in_items \o [i \in 1..Len(in_no_id) |-> NoIdEntry(in_no_id[i])]

PositionIn(seq, e) == CHOOSE k \in DOMAIN seq : seq[k] = e

\* the members of seq are members of base and come in the order of base
KeepsOrderOf(seq, base) ==
    /\ \A k \in DOMAIN seq : \E n \in DOMAIN base : base[n] = seq[k]
    /\ \A k, l \in DOMAIN seq :
          k < l => PositionIn(base, seq[k]) < PositionIn(base, seq[l])

\* in need_creation no row without a valid identifier precedes a Candidate
NoIdRowsLast(bucket) ==
    \A k, l \in DOMAIN bucket :
        bucket[k].pcf_id = None /\ bucket[l].pcf_id # None => l < k

\* table holds the entries of bucket in ascending vendor name, entries of
\* equal vendor name in the order of bucket
PresentedSorted(table, bucket) ==
    /\ Len(table) = Len(bucket)
    /\ \A k \in DOMAIN bucket : \E n \in DOMAIN table : table[n] = bucket[k]
    /\ \A k, l \in DOMAIN table :
          k < l =>
            /\ ~VendorLess(vendor_name(table[l]), vendor_name(table[k]))
            /\ vendor_name(table[l]) = vendor_name(table[k]) =>
                  PositionIn(bucket, table[k]) < PositionIn(bucket, table[l])

\* main has reached the call of generate_html_dashboard with the buckets of a
\* filtered sheet
ReportAttempted ==
    /\ Filtered
    /\ xlsx_stats.exc = ""
    /\ "generate_html_dashboard" \in called

\* C27: every bucket of classify_products keeps its members in the order of
\* the classifier's input, the rows without a valid identifier come after
\* every Candidate of need_creation, and the report presents each bucket that
\* has a table sorted by vendor name ascending, equal names in bucket order.
C27_BucketOrderAndSortedPresentation ==
    /\ Classified =>
          /\ \A b \in BucketNames : KeepsOrderOf(classification[b], ClassifierInput)
          /\ NoIdRowsLast(classification.need_creation)
    /\ ReportAttempted =>
          /\ outputs.html = "report"
          /\ \A b \in SortedBuckets :
                PresentedSorted(outputs.tables[b], classification[b])

-----------------------------------------------------------------------------
(* Termination of a run with lookups *)

\* every future has completed and its result was collected, classification
\* has run, and the report and the summary are written
PipelineCompleted ==
    /\ BatchDrained
    /\ Len(results) = Len(tasks)
    /\ Classified
    /\ pc = "done"
    /\ outputs.html = "report"
    /\ outputs.json

\* C26: once the lookups are submitted, every lookup completes, the pool
\* drains, classification runs and the report and the summary are written;
\* and in whatever order the lookups complete, every Candidate is in the
\* bucket its own Lookup Result alone puts it in.
C26_LookupsCompleteAndReportWritten ==
    /\ (pc = "batch") ~> PipelineCompleted
    /\ [](Classified =>
            \A i \in 1..Len(df) :
                ValidRow(df[i]) => \A b \in BucketAlone(df[i]) : InBucket(b, df[i].idx))

-----------------------------------------------------------------------------
(* The results sequence under concurrent lookups *)

\* the entry of the lookup of task t once its future has completed
EntryOf(t) ==
    JoinRow(tasks[t].pid, tasks[t].row, FutureResult(futures[t].outcome))

\* a step that changes results appends the entry of one completed lookup that
\* was not collected before, and keeps every earlier entry
OnlyCollectionAppends ==
    results' # results =>
        \E t \in DOMAIN futures :
            /\ futures[t].state = "finished"
            /\ ~futures[t].collected
            /\ futures'[t].collected
            /\ results' = Append(results, EntryOf(t))

\* a step in which a worker takes up or completes a lookup changes the future
\* of that lookup and no other, and leaves results as it is
WorkersWriteOwnFuture ==
    \A t \in DOMAIN futures :
        (t \in DOMAIN futures' /\ futures'[t].state # futures[t].state) =>
            /\ results' = results
            /\ \A u \in DOMAIN futures : u # t => futures'[u] = futures[u]

\* results holds the entry of every submitted lookup, once
OneEntryPerLookup ==
    /\ Len(results) = Len(tasks)
    /\ \A t \in DOMAIN tasks :
          Cardinality({k \in DOMAIN results : results[k] = EntryOf(t)}) = 1

\* C28: a worker changes only its own future and never results; results
\* changes only by the append of one collected lookup; so when the batch
\* returns, results has exactly one entry per submitted lookup.
C28_OnlyControllingFlowAppends ==
    /\ [][OnlyCollectionAppends /\ WorkersWriteOwnFuture]_vars
    /\ [](tasks # <<>> /\ BatchDrained => OneEntryPerLookup)

C28_Witness ==
    /\ pc = "report"
    /\ args.workers = 2
    /\ Len(tasks) = 3
    /\ results[1] = EntryOf(3)
    /\ results[3] = EntryOf(1)
    /\ OneEntryPerLookup

-----------------------------------------------------------------------------
(* The conversion of check_products_batch against is_valid_pcf_id *)

\* the conversion of lines 292-295 succeeds on the row
Converts(row) == PcfIdInt(row).exc = ""

\* C29: every row apply_xlsx_filters put in has_pcf_id is converted and
\* submitted, in order, so the loop of check_products_batch skips no row and
\* raises nothing, and the drained batch has as many results as there are
\* valid-identifier rows.
C29_ConversionAgreesWithValidity ==
    "check_products_batch" \in called =>
        LET valid == xlsx_stats.has_pcf_id
        IN  /\ \A i \in DOMAIN valid : Converts(valid[i])
            /\ pc # "crashed" \/ Classified
            /\ Len(tasks) = Len(valid)
            /\ \A i \in DOMAIN tasks : tasks[i].row = valid[i]
            /\ BatchDrained => Len(results) = Len(valid)

\* the batch has returned for a sheet whose valid identifiers are text with a
\* decimal point, text with blanks around it and a float cell
C29_Witness ==
    /\ Classified
    /\ Len(xlsx_stats.has_pcf_id) = 3
    /\ \E i, j, k \in DOMAIN tasks :
          /\ tasks[i].row.pcf_id = Str(<<"2", ".", "0">>)
          /\ tasks[j].row.pcf_id = Str(<<" ", "3", " ">>)
          /\ tasks[k].row.pcf_id = FloatCell(1)
    /\ Len(in_items) = 3

-----------------------------------------------------------------------------
(* The files a run writes *)

\* the run returned from one of the two branches of a failed input source
EndedOnSourceFailure ==
    pc = "done" /\ load \in {"gsheet_error", "no_price_file"}

\* main reached its last line
CompletedPipeline == pc = "done" /\ load = "ok"

\* the entries of a and of b are the same, each as often
SameEntries(a, b) ==
    /\ Len(a) = Len(b)
    /\ \A k \in DOMAIN a :
          Cardinality({n \in DOMAIN a : a[n] = a[k]})
          = Cardinality({n \in DOMAIN b : b[n] = a[k]})

\* C30: a run that ends on a failed input source has written the placeholder
\* HTML report and no JSON summary; no run writes the JSON summary before its
\* last step; and a run that completes the pipeline has written the HTML
\* report and the JSON summary, both from the buckets of the classification.
C30_PlaceholderWritesHtmlOnly ==
    /\ EndedOnSourceFailure =>
          /\ outputs.html = "placeholder"
          /\ ~outputs.json
          /\ outputs.json_total = None
          /\ outputs.json_buckets = EmptyClassification
    /\ outputs.json => CompletedPipeline
    /\ CompletedPipeline =>
          /\ outputs.html = "report"
          /\ outputs.json
          /\ outputs.json_buckets = classification
          /\ outputs.json_total = Some(outputs.dashboard.total_eligible)
          /\ \A b \in SortedBuckets :
                SameEntries(outputs.tables[b], outputs.json_buckets[b])

C30_Witness ==
    /\ EndedOnSourceFailure
    /\ load = "no_price_file"
    /\ df # <<>>
    /\ outputs.html = "placeholder"
    /\ ~outputs.json

====
